---- MODULE Spec2Model ----
(***************************************************************************)
(* Order validation and execution of the Polymarket service                *)
(* (polymarket-mcp/src/services/polymarket-service.ts), the order tools    *)
(* built on it (polymarket-mcp/src/tools/polymarket.ts) and the trading    *)
(* agent's request validation.                                              *)
(*                                                                         *)
(* Money is counted in cents: a price of 0.65 is 65, a balance of $1 is    *)
(* 100.  An optional (possibly undefined) field is a sequence of length 0  *)
(* or 1.  A string identifier whose prefix the code inspects is a sequence *)
(* of characters.                                                          *)
(***************************************************************************)
EXTENDS Integers, Sequences, FiniteSets, TLC

VARIABLES
    clobClient,     \* PolymarketService.clobClient is not null
    wallet,         \* PolymarketService.wallet is not null
    isInitialized,  \* PolymarketService.isInitialized
    usdc,           \* the exchange's record of the account's collateral
    allowances,     \* the exchange's allowance entries of the account
    held,           \* the exchange's record of the tokens the account holds
    calls,          \* the calls in flight: each one's position and locals
    search,         \* the listing, search or lookup call in flight
    scoring,        \* a relevance score being computed on its own
    applied         \* a ranking, an interest expansion or a good-till-date
                    \* order computed on its own

vars == <<clobClient, wallet, isInitialized, usdc, allowances, held, calls,
          search, scoring, applied>>

----------------------------------------------------------------------------
(* Bounds of the model *)

MaxSize == 2
MaxBalance == 2
MaxAllowanceEntries == 2

(* Program constants, in cents and shares *)

MinPrice == 1
MaxPrice == 99
MinSize == 1

----------------------------------------------------------------------------
(* Input domains *)

None == <<>>
Some(x) == <<x>>

Prices == {MinPrice - 1, MinPrice, 50, MaxPrice, MaxPrice + 1}
Sizes == 0..MaxSize
Balances == {50 * b : b \in 0..MaxBalance}
AllowanceLists == UNION {[1..n -> {0, 50}] : n \in 0..MaxAllowanceEntries}

ConditionIds == {<<>>, <<"5", "7", "8">>, <<"0", "x", "a">>}
Outcomes == {"", "Yes", "yes"}
\* tokens[] of the market the trading API returns
MarketTokens == <<[token_id |-> "tokYes", outcome |-> "Yes"],
                  [token_id |-> "tokNo", outcome |-> "No"]>>
TokenIds == {MarketTokens[i].token_id : i \in 1..Len(MarketTokens)}

\* process.env.PRIVATE_KEY: absent, one the Wallet constructor rejects, or good
PrivateKeys == {"none", "invalid", "valid"}

\* What awaiting a call of the exchange client can produce besides a value:
\* a thrown Error (with its message) or a thrown value that is no Error.
ErrorMessages == {"Network Error"}
Throws == [kind : {"throwsError"}, message : ErrorMessages]
              \cup {[kind |-> "throwsOther", message |-> ""]}

RECURSIVE SumSeq(_)
SumSeq(s) == IF s = <<>> THEN 0 ELSE Head(s) + SumSeq(Tail(s))

Min(a, b) == IF a <= b THEN a ELSE b

----------------------------------------------------------------------------
(* PolymarketService: construction *)

\* initializeClient has no await: the constructor runs it to completion.
initializeClient(privateKey) ==
    IF privateKey = "none"
    THEN [wallet |-> FALSE, clobClient |-> FALSE, isInitialized |-> TRUE]
    ELSE IF privateKey = "invalid"
    THEN \* new Wallet(privateKey) throws; the catch marks it initialized
         [wallet |-> FALSE, clobClient |-> FALSE, isInitialized |-> TRUE]
    ELSE [wallet |-> TRUE, clobClient |-> TRUE, isInitialized |-> TRUE]

isReadyForTrading == clobClient /\ wallet /\ isInitialized

----------------------------------------------------------------------------
(* Order Requirement Validator *)

\* An OrderRequirements value, or the exception the check ended with.
Requirements(canPlace, balance, maxOrderSize, error) ==
    [kind |-> "value", canPlace |-> canPlace, balance |-> balance,
     allowance |-> None, maxOrderSize |-> maxOrderSize, error |-> error]
RequirementsThrown(message) ==
    [kind |-> "thrown", canPlace |-> FALSE, balance |-> None,
     allowance |-> None, maxOrderSize |-> None, error |-> Some(message)]
NoReq ==
    [kind |-> "none", canPlace |-> FALSE, balance |-> None,
     allowance |-> None, maxOrderSize |-> None, error |-> None]

\* error instanceof Error ? error.message : fallback
MessageOf(thrown, fallback) ==
    IF thrown.kind = "throwsError" THEN thrown.message ELSE fallback

\* The answers of clobClient.getBalanceAllowance(): the bare number the
\* service assumes, or the {balance, allowances} object the client returns.
BalanceAnswers ==
    {[kind |-> "value", shape |-> sh, balance |-> usdc, allowances |-> allowances,
      message |-> ""] : sh \in {"scalar", "object"}}
    \cup {[kind |-> t.kind, shape |-> "none", balance |-> 0, allowances |-> <<>>,
           message |-> t.message] : t \in Throws}

\* Number(balance) || 0: an object converts to NaN, which is falsy.
NumberOrZero(answer) == IF answer.shape = "scalar" THEN answer.balance ELSE 0

checkBuyOrderRequirementsNoCatch(orderValue, answer) ==
    IF ~(clobClient /\ wallet)
    THEN Requirements(FALSE, None, None,
                      Some("CLOB client or wallet not initialized"))
    ELSE IF answer.kind # "value"
    THEN RequirementsThrown(answer.message)
    ELSE LET usdcBalance == NumberOrZero(answer)
             canPlace == usdcBalance >= orderValue
             maxOrderSize == Min(usdcBalance, orderValue)
         IN  Requirements(canPlace, Some(usdcBalance), Some(maxOrderSize),
                          IF canPlace THEN None
                          ELSE Some("Insufficient USDC balance"))

checkBuyOrderRequirements(orderValue, answer) ==
    IF ~(clobClient /\ wallet)
    THEN Requirements(FALSE, None, None,
                      Some("CLOB client or wallet not initialized"))
    ELSE IF answer.kind # "value"
    THEN Requirements(FALSE, None, None,
                      Some(MessageOf(answer, "Failed to check requirements")))
    ELSE LET usdcBalance == NumberOrZero(answer)
             canPlace == usdcBalance >= orderValue
             maxOrderSize == Min(usdcBalance, orderValue)
         IN  Requirements(canPlace, Some(usdcBalance), Some(maxOrderSize),
                          IF canPlace THEN None
                          ELSE Some("Insufficient USDC balance"))

\* The token balance is the literal 0: no call of the exchange is made.
checkSellOrderRequirements(tokenId, size) ==
    IF ~(clobClient /\ wallet)
    THEN Requirements(FALSE, None, None,
                      Some("CLOB client or wallet not initialized"))
    ELSE LET tokenBalance == 0
             canPlace == tokenBalance >= size
             maxOrderSize == Min(tokenBalance, size)
         IN  Requirements(canPlace, Some(tokenBalance), Some(maxOrderSize),
                          IF canPlace THEN None
                          ELSE Some("Insufficient token balance"))

----------------------------------------------------------------------------
(* Calls: one record per call in flight *)

NoResp ==
    [kind |-> "none", success |-> FALSE, orderId |-> None, error |-> None,
     orderDetails |-> None, validationDetails |-> None]
\* An OrderResponse that reports a failure
OrderFailure(error, validationDetails) ==
    [kind |-> "OrderResponse", success |-> FALSE, orderId |-> None,
     error |-> Some(error), orderDetails |-> None,
     validationDetails |-> validationDetails]
\* An OrderResponse that reports success; orderId is response.orderID || response.id
OrderSuccess(orderId, tokenId, price, size, side) ==
    [kind |-> "OrderResponse", success |-> TRUE, orderId |-> orderId,
     error |-> None,
     orderDetails |-> Some([tokenId |-> tokenId, price |-> price, size |-> size,
                            side |-> side, totalValue |-> price * size]),
     validationDetails |-> None]
\* The call ended with an exception that reached its caller
Thrown(message) ==
    [kind |-> "thrown", success |-> FALSE, orderId |-> None,
     error |-> Some(message), orderDetails |-> None, validationDetails |-> None]
\* The TradingResponse of the trading agent's executeAction
TradingResponse(success, error) ==
    [kind |-> "TradingResponse", success |-> success, orderId |-> None,
     error |-> error, orderDetails |-> None, validationDetails |-> None]

NoExchange == [verdict |-> "none", how |-> "none", unfunded |-> FALSE, message |-> ""]
NoSeen == [usdc |-> 0, allowance |-> 0, held |-> 0, fetched |-> "none"]

IdleCall ==
    [pc |-> "idle", entry |-> "none", conditionId |-> <<>>, outcome |-> "",
     tokenId |-> "", side |-> "", price |-> 0, size |-> 0, skipValidation |-> FALSE,
     req |-> NoReq, resp |-> NoResp, tool |-> "none",
     nMarket |-> 0, nBalance |-> 0, nCheck |-> 0, nCreate |-> 0, nPost |-> 0,
     exch |-> NoExchange, seen |-> NoSeen]

Procs == DOMAIN calls

Set(p, c) == calls' = [calls EXCEPT ![p] = c]
ExchangeUnchanged == UNCHANGED <<usdc, allowances, held>>
ServiceUnchanged == UNCHANGED <<clobClient, wallet, isInitialized>>
ListingUnchanged == UNCHANGED <<search, scoring, applied>>

\* The text a tool returns after the service answered
ToolText(c, resp) ==
    IF c.entry \notin {"createBuyOrderTool", "createSellOrderTool"} THEN c.tool
    ELSE IF resp.kind = "thrown" THEN "Error"
    ELSE IF resp.success THEN "Created" ELSE "Failed"

Finish(c, resp) == [c EXCEPT !.pc = "done", !.resp = resp, !.tool = ToolText(c, resp)]

----------------------------------------------------------------------------
(* Order Execution State Machine: createBuyOrder / createSellOrder *)

EnterOrderAlwaysChecking(c) ==
    IF ~(clobClient /\ wallet)
    THEN Finish(c, Thrown("CLOB client or wallet not initialized"))
    ELSE [c EXCEPT !.pc = "check"]

\* The entry of createBuyOrder/createSellOrder up to its first await that
\* reaches the exchange: ensureInitialized (a no-op once constructed), the
\* client guard, and the choice between validating and going on.
EnterOrder(c) ==
    IF ~(clobClient /\ wallet)
    THEN Finish(c, Thrown("CLOB client or wallet not initialized"))
    ELSE IF ~c.skipValidation
    THEN [c EXCEPT !.pc = "check"]
    ELSE [c EXCEPT !.pc = "createOrder"]

\* The service called directly, with inputs drawn from the given sets
StartOrder(p, side, tokenIds, prices, sizes, skips) ==
    /\ calls[p].pc = "idle"
    /\ \E tokenId \in tokenIds, price \in prices, size \in sizes, skip \in skips :
         Set(p, EnterOrder([calls[p] EXCEPT
                !.entry = IF side = "BUY" THEN "createBuyOrder" ELSE "createSellOrder",
                !.tokenId = tokenId, !.side = side, !.price = price,
                !.size = size, !.skipValidation = skip]))
    /\ ExchangeUnchanged /\ ServiceUnchanged /\ ListingUnchanged

createBuyOrder(p) == StartOrder(p, "BUY", TokenIds, Prices, Sizes, BOOLEAN)
createSellOrder(p) == StartOrder(p, "SELL", TokenIds, Prices, Sizes, BOOLEAN)

\* A requirement check ran: its result, and what the exchange held then
RecordCheck(c, req, answer) ==
    [c EXCEPT !.req = req, !.nCheck = @ + 1,
              !.nBalance = @ + (IF c.side = "BUY" /\ clobClient /\ wallet
                                THEN 1 ELSE 0),
              !.seen = [usdc |-> usdc, allowance |-> SumSeq(allowances),
                        held |-> held[c.tokenId],
                        fetched |-> IF answer.kind = "value" THEN answer.shape
                                    ELSE answer.kind]]

ValidatedIgnoringVerdict(c, req, answer) ==
    [RecordCheck(c, req, answer) EXCEPT !.pc = "createOrder"]

\* What the order method does with the result of its requirement check
Validated(c, req, answer) ==
    LET d == RecordCheck(c, req, answer)
    IN  IF req.kind = "thrown"
        THEN Finish(d, Thrown(req.error[1]))
        ELSE IF ~req.canPlace
        THEN Finish(d, OrderFailure(
                 IF req.error # None /\ req.error[1] # "" THEN req.error[1]
                 ELSE IF c.side = "BUY" THEN "Order validation failed"
                 ELSE "Sell order validation failed",
                 Some([maxOrderSize |-> req.maxOrderSize, balance |-> req.balance])))
        ELSE [d EXCEPT !.pc = "createOrder"]

NoAnswer == [kind |-> "value", shape |-> "none", balance |-> 0,
             allowances |-> <<>>, message |-> ""]

\* `if (!options.skipValidation) { requirements = await check...; ... }`
ValidateOrder(p) ==
    /\ calls[p].pc = "check"
    /\ LET c == calls[p]
       IN  IF c.side = "BUY"
           THEN \E answer \in BalanceAnswers :
                  Set(p, Validated(c,
                      checkBuyOrderRequirements(c.price * c.size, answer), answer))
           ELSE Set(p, Validated(c,
                      checkSellOrderRequirements(c.tokenId, c.size), NoAnswer))
    /\ ExchangeUnchanged /\ ServiceUnchanged /\ ListingUnchanged

\* The answers of clobClient.createOrder(): the signed order, or a throw
SignAnswers ==
    {[kind |-> "value", message |-> ""]}
    \cup {[kind |-> t.kind, message |-> t.message] : t \in Throws}

\* `const order = await this.clobClient.createOrder({...})` inside the try
Created(c, answer) ==
    LET d == [c EXCEPT !.nCreate = @ + 1]
    IN  IF answer.kind = "value"
        THEN [d EXCEPT !.pc = "postOrder"]
        ELSE Finish(d, OrderFailure(MessageOf(answer, "Unknown error"), None))

CreateOrder(p) ==
    /\ calls[p].pc = "createOrder"
    /\ \E answer \in SignAnswers : Set(p, Created(calls[p], answer))
    /\ ExchangeUnchanged /\ ServiceUnchanged /\ ListingUnchanged

\* The exchange, the final arbiter: an order is funded when the collateral and
\* the allowance cover a buy, or the held tokens cover a sell.
Funded(c) ==
    IF c.side = "BUY"
    THEN usdc >= c.price * c.size /\ SumSeq(allowances) >= c.price * c.size
    ELSE held[c.tokenId] >= c.size
Acceptable(c) ==
    /\ c.price >= MinPrice /\ c.price <= MaxPrice /\ c.size >= MinSize
    /\ Funded(c)

\* The answers of clobClient.postOrder(order): the accepted order's id, an
\* error body returned as a value (the client's way of reporting an upstream
\* error, which getMarket/getRawMarket test for with `"error" in market`),
\* or a throw.
PostAnswers(c) ==
    (IF Acceptable(c)
     THEN {[kind |-> "value", accepted |-> TRUE, orderID |-> Some("order-1"),
            error |-> None, message |-> ""]}
     ELSE {})
    \cup {[kind |-> "value", accepted |-> FALSE, orderID |-> None,
           error |-> Some("order rejected by the exchange"), message |-> ""]}
    \cup {[kind |-> t.kind, accepted |-> FALSE, orderID |-> None, error |-> None,
           message |-> t.message] : t \in Throws}

\* What the exchange did with the order, kept for the properties
Verdict(c, answer) ==
    [verdict |-> IF answer.accepted THEN "accepted" ELSE "rejected",
     how |-> IF answer.accepted THEN "orderID"
             ELSE IF answer.kind = "value" THEN "errorBody" ELSE answer.kind,
     unfunded |-> ~Funded(c),
     message |-> IF answer.kind = "value"
                 THEN (IF answer.error = None THEN "" ELSE answer.error[1])
                 ELSE answer.message]

PostedWithRetry(c, answer) ==
    LET d == [c EXCEPT !.nPost = @ + 1, !.exch = Verdict(c, answer)]
    IN  IF answer.kind = "value"
        THEN Finish(d, OrderSuccess(answer.orderID, c.tokenId, c.price, c.size,
                                    c.side))
        ELSE IF d.nPost < 2 THEN d
        ELSE Finish(d, OrderFailure(MessageOf(answer, "Unknown error"), None))

\* `const response = await this.clobClient.postOrder(order); return {...}`
\* and the catch around it
Posted(c, answer) ==
    LET d == [c EXCEPT !.nPost = @ + 1, !.exch = Verdict(c, answer)]
    IN  IF answer.kind = "value"
        THEN Finish(d, OrderSuccess(answer.orderID, c.tokenId, c.price, c.size,
                                    c.side))
        ELSE Finish(d, OrderFailure(MessageOf(answer, "Unknown error"), None))

PostOrder(p) ==
    /\ calls[p].pc = "postOrder"
    /\ LET c == calls[p]
       IN  \E answer \in PostAnswers(c) :
             /\ Set(p, Posted(c, answer))
             /\ usdc' = IF answer.accepted /\ c.side = "BUY"
                        THEN usdc - c.price * c.size ELSE usdc
             /\ held' = IF answer.accepted /\ c.side = "SELL"
                        THEN [held EXCEPT ![c.tokenId] = @ - c.size] ELSE held
    /\ UNCHANGED allowances /\ ServiceUnchanged /\ ListingUnchanged

----------------------------------------------------------------------------
(* The order tools: CREATE_POLYMARKET_BUY_ORDER / CREATE_POLYMARKET_SELL_ORDER *)

\* String.prototype.startsWith("0x")
StartsWith0x(id) == Len(id) >= 2 /\ id[1] = "0" /\ id[2] = "x"

\* The tools' zod parameters: conditionId and outcome of length >= 1,
\* price in [0.01, 0.99], size >= 1
ToolParametersOk(conditionId, outcome, price, size) ==
    /\ Len(conditionId) >= 1
    /\ outcome # ""
    /\ price >= MinPrice /\ price <= MaxPrice
    /\ size >= MinSize

\* A tool call up to its first await: the parameter schema, then
\* `new PolymarketService()` and the isReadyForTrading() guard
StartTool(p, side) ==
    /\ calls[p].pc = "idle"
    /\ \E conditionId \in ConditionIds, outcome \in Outcomes, price \in Prices,
          size \in Sizes :
         LET c == [calls[p] EXCEPT
                     !.entry = IF side = "BUY" THEN "createBuyOrderTool"
                               ELSE "createSellOrderTool",
                     !.conditionId = conditionId, !.outcome = outcome,
                     !.side = side, !.price = price, !.size = size]
         IN  Set(p, IF ~ToolParametersOk(conditionId, outcome, price, size)
                    THEN [c EXCEPT !.pc = "done", !.tool = "InvalidParameters"]
                    ELSE IF ~isReadyForTrading
                    THEN [c EXCEPT !.pc = "done", !.tool = "TradingNotAvailable"]
                    ELSE [c EXCEPT !.pc = "getRawMarket"])
    /\ ExchangeUnchanged /\ ServiceUnchanged /\ ListingUnchanged

createBuyOrderTool(p) == StartTool(p, "BUY")
createSellOrderTool(p) == StartTool(p, "SELL")

\* The answers of clobClient.getMarket(conditionId): a market record, an
\* error body, a record the schema rejects, or a throw.  The exchange is not
\* bound to any format of the id it is asked for.
MarketAnswers ==
    {[kind |-> "value", body |-> b, message |-> ""] :
        b \in {"market", "error", "malformed"}}
    \cup {[kind |-> t.kind, body |-> "none", message |-> t.message] : t \in Throws}

\* PolymarketService.getRawMarket: the market's tokens, or the error it throws
getRawMarket(conditionId, answer) ==
    IF ~clobClient
    THEN [kind |-> "thrown", tokens |-> <<>>, message |-> "CLOB client not initialized"]
    ELSE IF answer.kind # "value"
    THEN [kind |-> "thrown", tokens |-> <<>>,
          message |-> MessageOf(answer, "unknown")]
    ELSE IF answer.body = "error"
    THEN [kind |-> "thrown", tokens |-> <<>>, message |-> "Market not found in CLOB"]
    ELSE IF answer.body = "malformed"
    THEN [kind |-> "thrown", tokens |-> <<>>, message |-> "ZodError"]
    ELSE [kind |-> "value", tokens |-> MarketTokens, message |-> ""]

FindTokenOrFirst(tokens, outcome) ==
    LET hits == {i \in 1..Len(tokens) : tokens[i].outcome = outcome}
    IN  IF tokens = <<>> THEN None
        ELSE IF hits = {} THEN Some(tokens[1])
        ELSE Some(tokens[CHOOSE i \in hits : \A j \in hits : i <= j])

\* tokens.find((t) => t.outcome === params.outcome): the first match, if any
FindToken(tokens, outcome) ==
    LET hits == {i \in 1..Len(tokens) : tokens[i].outcome = outcome}
    IN  IF hits = {} THEN None
        ELSE Some(tokens[CHOOSE i \in hits : \A j \in hits : i <= j])

\* The tool after getRawMarket answered: pick the token, call the service
\* (without options, so skipValidation is unset)
Selected(c, raw) ==
    LET d == [c EXCEPT !.nMarket = @ + 1]
        token == FindToken(raw.tokens, c.outcome)
    IN  IF raw.kind = "thrown"
        THEN [d EXCEPT !.pc = "done", !.tool = "Error"]
        ELSE IF token = None
        THEN [d EXCEPT !.pc = "done", !.tool = "InvalidOutcome"]
        ELSE EnterOrder([d EXCEPT !.tokenId = token[1].token_id])

GetRawMarket(p) ==
    /\ calls[p].pc = "getRawMarket"
    /\ \E answer \in MarketAnswers :
         Set(p, Selected(calls[p], getRawMarket(calls[p].conditionId, answer)))
    /\ ExchangeUnchanged /\ ServiceUnchanged /\ ListingUnchanged

----------------------------------------------------------------------------
(* The requirement checks called on their own *)

CallCheckBuy(p) ==
    /\ calls[p].pc = "idle"
    /\ \E price \in Prices, size \in Sizes, answer \in BalanceAnswers :
         LET c == [calls[p] EXCEPT !.entry = "checkBuyOrderRequirements",
                                   !.side = "BUY", !.tokenId = "tokYes",
                                   !.price = price, !.size = size]
         IN  Set(p, [RecordCheck(c, checkBuyOrderRequirements(price * size, answer),
                                 answer) EXCEPT !.pc = "done"])
    /\ ExchangeUnchanged /\ ServiceUnchanged /\ ListingUnchanged

CallCheckSell(p) ==
    /\ calls[p].pc = "idle"
    /\ \E tokenId \in TokenIds, size \in Sizes :
         LET c == [calls[p] EXCEPT !.entry = "checkSellOrderRequirements",
                                   !.side = "SELL", !.tokenId = tokenId,
                                   !.size = size]
         IN  Set(p, [RecordCheck(c, checkSellOrderRequirements(tokenId, size),
                                 NoAnswer) EXCEPT !.pc = "done"])
    /\ ExchangeUnchanged /\ ServiceUnchanged /\ ListingUnchanged

----------------------------------------------------------------------------
(* The trading agent: executeAction *)

validateTradingRequest(conditionId, availableOutcomes) ==
    IF conditionId = <<>>
    THEN [valid |-> FALSE, error |-> "No market selected for trading"]
    ELSE IF ~StartsWith0x(conditionId)
    THEN [valid |-> FALSE, error |-> "Invalid conditionId format - must start with 0x"]
    ELSE IF availableOutcomes = <<>>
    THEN [valid |-> FALSE, error |-> "No trading outcomes available"]
    ELSE [valid |-> TRUE, error |-> ""]

\* What the request's action text routes to, and whether the order details
\* parse out of it
Actions == {"price", "buy", "buy unparsed", "sell", "sell unparsed", "balance",
            "options"}
\* runner.ask(message): the agent's reply, or a throw
AskAnswers ==
    {[kind |-> "value", message |-> ""]}
    \cup {[kind |-> t.kind, message |-> t.message] : t \in Throws}

executeAction(p) ==
    /\ calls[p].pc = "idle"
    /\ \E conditionId \in ConditionIds, availableOutcomes \in {<<>>, <<"Yes", "No">>},
          action \in Actions, answer \in AskAnswers :
         LET c == [calls[p] EXCEPT !.entry = "executeAction",
                                   !.conditionId = conditionId]
             validation == validateTradingRequest(conditionId, availableOutcomes)
         IN  Set(p, Finish(c,
               IF ~validation.valid
               THEN TradingResponse(FALSE, Some(validation.error))
               ELSE IF action \in {"buy unparsed", "sell unparsed"}
               THEN TradingResponse(FALSE, Some("No valid outcome specified"))
               ELSE IF answer.kind # "value"
               THEN TradingResponse(FALSE, Some(MessageOf(answer, "failed")))
               ELSE TradingResponse(TRUE, None)))
    /\ ExchangeUnchanged /\ ServiceUnchanged /\ ListingUnchanged

----------------------------------------------------------------------------
(* Text: a string is the sequence of its characters *)

\* String.prototype.toLowerCase
toLowerCase(s) ==
    LET UpperCase == <<"A", "B", "C", "D", "E", "F", "G", "H", "I", "J", "K", "L", "M",
                       "N", "O", "P", "Q", "R", "S", "T", "U", "V", "W", "X", "Y", "Z">>
        LowerCase == <<"a", "b", "c", "d", "e", "f", "g", "h", "i", "j", "k", "l", "m",
                       "n", "o", "p", "q", "r", "s", "t", "u", "v", "w", "x", "y", "z">>
    IN  [i \in 1..Len(s) |->
            IF \E k \in 1..Len(UpperCase) : UpperCase[k] = s[i]
            THEN LowerCase[CHOOSE k \in 1..Len(UpperCase) : UpperCase[k] = s[i]]
            ELSE s[i]]

\* String.prototype.includes
includes(s, sub) ==
    \E i \in 0..(Len(s) - Len(sub)) : SubSeq(s, i + 1, i + Len(sub)) = sub

\* String.prototype.split(" "): the pieces between the spaces, empty ones kept
RECURSIVE split(_)
split(s) ==
    IF \A i \in 1..Len(s) : s[i] # " " THEN <<s>>
    ELSE LET k == CHOOSE i \in 1..Len(s) :
                      s[i] = " " /\ \A j \in 1..(i - 1) : s[j] # " "
         IN  <<SubSeq(s, 1, k - 1)>> \o split(SubSeq(s, k + 1, Len(s)))

----------------------------------------------------------------------------
(* JSON text of an outcomes field: the sequence of its lexemes *)

\* A lexeme: "[", "]", ",", a "string" with its value, or a "bare" word that
\* is no JSON value, as in `Yes, No`
Lexeme(t, v) == [t |-> t, v |-> v]

\* JSON.stringify of a list of strings
RECURSIVE JsonItems(_)
JsonItems(list) ==
    IF list = <<>> THEN <<>>
    ELSE IF Len(list) = 1 THEN <<Lexeme("string", list[1])>>
    ELSE <<Lexeme("string", list[1]), Lexeme(",", "")>> \o JsonItems(Tail(list))
JSONstringify(list) == <<Lexeme("[", "")>> \o JsonItems(list) \o <<Lexeme("]", "")>>

\* The items between the brackets: strings separated by commas, or a failure
RECURSIVE ParseItems(_)
ParseItems(lex) ==
    IF lex = <<>> THEN [ok |-> FALSE, list |-> <<>>]
    ELSE IF lex[1].t # "string" THEN [ok |-> FALSE, list |-> <<>>]
    ELSE IF Len(lex) = 1 THEN [ok |-> TRUE, list |-> <<lex[1].v>>]
    ELSE IF lex[2].t # "," THEN [ok |-> FALSE, list |-> <<>>]
    ELSE LET rest == ParseItems(SubSeq(lex, 3, Len(lex)))
         IN  [ok |-> rest.ok,
              list |-> IF rest.ok THEN <<lex[1].v>> \o rest.list ELSE <<>>]

\* JSON.parse: a list of strings, a lone string, or a SyntaxError
JSONparse(lex) ==
    IF Len(lex) = 1 /\ lex[1].t = "string"
    THEN [kind |-> "string", list |-> <<>>, text |-> lex[1].v]
    ELSE IF Len(lex) >= 2 /\ lex[1].t = "[" /\ lex[Len(lex)].t = "]"
    THEN IF Len(lex) = 2 THEN [kind |-> "list", list |-> <<>>, text |-> ""]
         ELSE LET items == ParseItems(SubSeq(lex, 2, Len(lex) - 1))
              IN  IF items.ok
                  THEN [kind |-> "list", list |-> items.list, text |-> ""]
                  ELSE [kind |-> "SyntaxError", list |-> <<>>, text |-> ""]
    ELSE [kind |-> "SyntaxError", list |-> <<>>, text |-> ""]

----------------------------------------------------------------------------
(* Listings: the records of the Gamma API and their normalization.           *)
(* A volume or liquidity is counted in 1/10000 of a dollar, a relevance     *)
(* score in 1/600 (so that a share of the 0.5 for word matches stays whole  *)
(* for a query of up to six words).                                         *)

ScoreUnit == 600

\* An outcomes field: absent, a native list, or a string (its JSON lexemes)
OutcomesAbsent == [kind |-> "absent", list |-> <<>>, lex |-> <<>>]
OutcomesList(list) == [kind |-> "list", list |-> list, lex |-> <<>>]
OutcomesString(lex) == [kind |-> "string", list |-> <<>>, lex |-> lex]

\* A JavaScript object with the fields the listings code reads or writes;
\* an absent (undefined) field is None.
EmptyObject ==
    [id |-> None, question |-> None, description |-> None, endDateIso |-> None,
     endDate |-> None, outcomes |-> OutcomesAbsent, questionID |-> None,
     eventsTitle |-> None, eventsTicker |-> None, conditionId |-> None,
     volume |-> None, volume24hr |-> None, volumeNum |-> None,
     liquidityNum |-> None, liquidity |-> None, eventId |-> None,
     eventTitle |-> None, category |-> None, relevanceScore |-> None,
     popularityScore |-> None]

\* `x || d` on a string, a text (character sequence: the ids, the question and
\* the category, which the code compares or searches) and a number
OrStr(x, d) == IF x = None \/ x = Some("") THEN d ELSE x[1]
OrText(x, d) == IF x = None \/ x = Some(<<>>) THEN d ELSE x[1]
OrNum(x, d) == IF x = None \/ x = Some(0) THEN d ELSE x[1]
\* `x || y` where the result may stay undefined
OrElse(x, y, falsy) == IF x = None \/ x = Some(falsy) THEN y ELSE x

General == <<"G", "e", "n", "e", "r", "a", "l">>
UnknownMarket == <<"U", "n", "k", "n", "o", "w", "n", " ", "M", "a", "r", "k", "e", "t">>
YesNo == <<"Yes", "No">>

gammaOutcomesEmptyDefault(o) ==
    IF o.kind = "list" THEN [kind |-> "value", outcomes |-> o]
    ELSE IF o.kind = "absent" \/ o.lex = <<>>
    THEN [kind |-> "value", outcomes |-> OutcomesList(<<>>)]
    ELSE LET parsed == JSONparse(o.lex)
         IN  IF parsed.kind = "SyntaxError"
             THEN [kind |-> "SyntaxError", outcomes |-> OutcomesAbsent]
             ELSE [kind |-> "value", outcomes |-> OutcomesList(parsed.list)]

\* The outcomes of the listings mapping:
\* Array.isArray(o) ? o : JSON.parse(o || '["Yes", "No"]')
gammaOutcomes(o) ==
    IF o.kind = "list" THEN [kind |-> "value", outcomes |-> o]
    ELSE LET parsed == IF o.kind = "absent" \/ o.lex = <<>>
                       THEN JSONparse(JSONstringify(YesNo))
                       ELSE JSONparse(o.lex)
         IN  IF parsed.kind = "SyntaxError"
             THEN [kind |-> "SyntaxError", outcomes |-> OutcomesAbsent]
             ELSE IF parsed.kind = "list"
             THEN [kind |-> "value", outcomes |-> OutcomesList(parsed.list)]
             ELSE [kind |-> "value",
                   outcomes |-> OutcomesString(<<Lexeme("bare", parsed.text)>>)]

\* getMarketsFromGamma: the mapping of one record of the response
gammaMapOne(market) ==
    [EmptyObject EXCEPT
        !.id = market.id,
        !.question = market.question,
        !.description = Some(OrStr(market.description, "")),
        !.endDate = OrElse(market.endDateIso, market.endDate, ""),
        !.outcomes = gammaOutcomes(market.outcomes).outcomes,
        !.eventId = Some(OrStr(market.questionID, "")),
        !.eventTitle = Some(OrStr(market.eventsTitle, "")),
        !.category = Some(OrText(market.eventsTicker, General)),
        !.conditionId = market.conditionId,
        !.volume24hr = Some(OrNum(market.volume, 0)),
        !.liquidity = Some(OrNum(OrElse(market.liquidityNum, market.volume, 0), 0))]

\* markets.map(...): the mapped records, or the SyntaxError of one of them
gammaMap(markets) ==
    IF \E i \in 1..Len(markets) :
           gammaOutcomes(markets[i].outcomes).kind = "SyntaxError"
    THEN [kind |-> "SyntaxError", markets |-> <<>>]
    ELSE [kind |-> "value",
          markets |-> [i \in 1..Len(markets) |-> gammaMapOne(markets[i])]]

----------------------------------------------------------------------------
(* Relevance scoring *)

SportsWord == <<"s", "p", "o", "r", "t", "s">>
PoliticsWord == <<"p", "o", "l", "i", "t", "i", "c", "s">>

\* sportsTerms and politicsTerms of calculateRelevanceScore
sportsTerms == {
    <<"b", "o", "x", "i", "n", "g">>,
    <<"u", "f", "c">>,
    <<"m", "m", "a">>,
    <<"g", "o", "l", "f">>,
    <<"t", "e", "n", "n", "i", "s">>,
    <<"m", "a", "n", "c", "h", "e", "s", "t", "e", "r">>,
    <<"r", "y", "d", "e", "r">>,
    <<"c", "h", "a", "m", "p", "i", "o", "n", "s", "h", "i", "p">>,
    <<"o", "l", "y", "m", "p", "i", "c", "s">>,
    <<"b", "a", "s", "k", "e", "t", "b", "a", "l", "l">>,
    <<"f", "o", "o", "t", "b", "a", "l", "l">>,
    <<"s", "o", "c", "c", "e", "r">>}
politicsTerms == {
    <<"e", "l", "e", "c", "t", "i", "o", "n">>,
    <<"d", "e", "m", "o", "c", "r", "a", "t", "i", "c">>,
    <<"r", "e", "p", "u", "b", "l", "i", "c", "a", "n">>,
    <<"c", "o", "n", "g", "r", "e", "s", "s">>,
    <<"s", "e", "n", "a", "t", "e">>,
    <<"h", "o", "u", "s", "e">>,
    <<"p", "r", "e", "s", "i", "d", "e", "n", "t">>,
    <<"m", "a", "y", "o", "r">>,
    <<"g", "o", "v", "e", "r", "n", "o", "r">>,
    <<"p", "a", "r", "t", "y">>,
    <<"v", "o", "t", "e">>,
    <<"c", "a", "m", "p", "a", "i", "g", "n">>,
    <<"p", "r", "i", "m", "a", "r", "y">>,
    <<"g", "e", "n", "e", "r", "a", "l">>,
    <<"m", "i", "d", "t", "e", "r", "m">>,
    <<"d", "e", "m", "o", "c", "r", "a", "t">>,
    <<"r", "e", "p", "u", "b", "l", "i", "c", "a", "n">>,
    <<"n", "a", "t", "o">>,
    <<"p", "o", "l", "i", "c", "y">>,
    <<"g", "o", "v", "e", "r", "n", "m", "e", "n", "t">>}

\* The contributions of calculateRelevanceScore, in 1/ScoreUnit
ExactMatchScore == 480
CategoryMatchScore == 180
WordMatchScore == 300
SportsBoost == 180
PoliticsBoost == 480

relevanceSumEarlyReturn(question, marketCategory, query, category) ==
    LET queryLower == toLowerCase(query)
        questionLower == toLowerCase(question)
    IN  IF includes(questionLower, queryLower) THEN ExactMatchScore
        ELSE (IF category # None /\ category # Some(<<>>) /\ marketCategory # None
                 /\ toLowerCase(marketCategory[1]) = toLowerCase(category[1])
              THEN CategoryMatchScore ELSE 0)
             + (IF includes(queryLower, PoliticsWord)
                   /\ \E term \in politicsTerms : includes(questionLower, term)
                THEN PoliticsBoost ELSE 0)

\* The sum of the contributions, before the clamp
relevanceSum(question, marketCategory, query, category) ==
    LET queryLower == toLowerCase(query)
        questionLower == toLowerCase(question)
        queryWords == split(queryLower)
        questionWords == split(questionLower)
        matchingWords ==
            {i \in 1..Len(queryWords) :
                \E j \in 1..Len(questionWords) :
                    includes(questionWords[j], queryWords[i])}
    IN  (IF includes(questionLower, queryLower) THEN ExactMatchScore ELSE 0)
        + (IF category # None /\ category # Some(<<>>) /\ marketCategory # None
              /\ toLowerCase(marketCategory[1]) = toLowerCase(category[1])
           THEN CategoryMatchScore ELSE 0)
        + ((Cardinality(matchingWords) * WordMatchScore) \div Len(queryWords))
        + (IF includes(queryLower, SportsWord)
              /\ \E term \in sportsTerms : includes(questionLower, term)
           THEN SportsBoost ELSE 0)
        + (IF includes(queryLower, PoliticsWord)
              /\ \E term \in politicsTerms : includes(questionLower, term)
           THEN PoliticsBoost ELSE 0)

calculateRelevanceScoreUnclamped(question, marketCategory, query, category) ==
    relevanceSum(question, marketCategory, query, category)

\* Math.min(score, 1.0)
calculateRelevanceScore(question, marketCategory, query, category) ==
    Min(relevanceSum(question, marketCategory, query, category), ScoreUnit)

----------------------------------------------------------------------------
(* searchMarketsEnhanced: scoring, filtering, sorting *)

DEFAULT_LIMIT == 8
DEFAULT_INTEREST_LIMIT == 6
MAX_RESULTS_CAP == 40
MIN_VOLUME_DEFAULT == 10
MIN_VOLUME_CONSERVATIVE == 5000
MIN_VOLUME_MODERATE == 1000
MIN_VOLUME_AGGRESSIVE == 1
RELEVANCE_SCORE_THRESHOLD == 6

\* The outcomes of the search step: a list as it is, a string parsed, else
\* the default
searchOutcomes(o) ==
    IF o.kind = "list" THEN [kind |-> "value", outcomes |-> o]
    ELSE IF o.kind = "string"
    THEN LET parsed == JSONparse(o.lex)
         IN  IF parsed.kind = "SyntaxError"
             THEN [kind |-> "SyntaxError", outcomes |-> OutcomesAbsent]
             ELSE IF parsed.kind = "list"
             THEN [kind |-> "value", outcomes |-> OutcomesList(parsed.list)]
             ELSE [kind |-> "value",
                   outcomes |-> OutcomesString(<<Lexeme("bare", parsed.text)>>)]
    ELSE [kind |-> "value", outcomes |-> OutcomesList(YesNo)]

\* volume / 10000 + liquidity / 5000, in 1/10000 of the volume's unit
calculatePopularityScore(market) ==
    OrNum(market.volume24hr, 0) + 2 * OrNum(market.liquidity, 0)

\* One element of scoredMarkets: marketData and its scores
scoreOne(marketAny, query, category) ==
    LET question == OrText(marketAny.question, UnknownMarket)
        marketCategory == OrText(marketAny.eventsTicker, <<>>)
    IN  [EmptyObject EXCEPT
            !.id = Some(OrText(marketAny.id, <<>>)),
            !.question = Some(question),
            !.description = Some(OrStr(marketAny.description, "")),
            !.endDate = Some(OrStr(OrElse(marketAny.endDateIso,
                                          marketAny.endDate, ""), "")),
            !.outcomes = searchOutcomes(marketAny.outcomes).outcomes,
            !.eventId = Some(OrStr(marketAny.questionID, "")),
            !.eventTitle = Some(OrStr(marketAny.eventsTitle, "")),
            !.category = Some(marketCategory),
            !.conditionId = Some(OrText(marketAny.conditionId, <<>>)),
            !.relevanceScore =
                Some(calculateRelevanceScore(question, Some(marketCategory),
                                             query, category)),
            !.volume24hr =
                Some(OrNum(OrElse(OrElse(marketAny.volume24hr, marketAny.volume, 0),
                                  marketAny.volumeNum, 0), 0)),
            !.liquidity =
                Some(OrNum(OrElse(marketAny.liquidityNum, marketAny.liquidity, 0), 0)),
            !.popularityScore = Some(calculatePopularityScore(marketAny))]

\* The key sortEnhancedMarkets compares by
sortKey(market, sortBy) ==
    IF sortBy = "popularity" THEN OrNum(market.popularityScore, 0)
    ELSE IF sortBy = "volume" THEN OrNum(market.volume24hr, 0)
    ELSE IF sortBy = "liquidity" THEN OrNum(market.liquidity, 0)
    ELSE market.relevanceScore[1]

sortEnhancedMarketsAscending(markets, sortBy) ==
    LET n == Len(markets)
        before(j, i) ==
            \/ sortKey(markets[j], sortBy) < sortKey(markets[i], sortBy)
            \/ sortKey(markets[j], sortBy) = sortKey(markets[i], sortBy) /\ j < i
        rank(i) == 1 + Cardinality({j \in 1..n : before(j, i)})
    IN  [k \in 1..n |-> markets[CHOOSE i \in 1..n : rank(i) = k]]

sortEnhancedMarketsUnstable(markets, sortBy) ==
    LET n == Len(markets)
        before(j, i) ==
            \/ sortKey(markets[j], sortBy) > sortKey(markets[i], sortBy)
            \/ sortKey(markets[j], sortBy) = sortKey(markets[i], sortBy) /\ j > i
        rank(i) == 1 + Cardinality({j \in 1..n : before(j, i)})
    IN  [k \in 1..n |-> markets[CHOOSE i \in 1..n : rank(i) = k]]

\* Array.prototype.sort with (a, b) => key(b) - key(a): descending, stable
sortEnhancedMarkets(markets, sortBy) ==
    LET n == Len(markets)
        before(j, i) ==
            \/ sortKey(markets[j], sortBy) > sortKey(markets[i], sortBy)
            \/ sortKey(markets[j], sortBy) = sortKey(markets[i], sortBy) /\ j < i
        rank(i) == 1 + Cardinality({j \in 1..n : before(j, i)})
    IN  [k \in 1..n |-> markets[CHOOSE i \in 1..n : rank(i) = k]]

sliceAll(s, limit) == s

\* Array.prototype.slice(0, limit)
slice(s, limit) == SubSeq(s, 1, Min(Len(s), limit))

\* An element of finalMarkets
finalMarket(market) ==
    [market EXCEPT !.description = None, !.popularityScore = None]

passesFilterScoreOnly(market, minVolume) ==
    OrNum(market.relevanceScore, 0) >= RELEVANCE_SCORE_THRESHOLD

\* The filter by relevance threshold and volume
passesFilter(market, minVolume) ==
    /\ OrNum(market.relevanceScore, 0) >= RELEVANCE_SCORE_THRESHOLD
    /\ OrNum(market.volume24hr, 0) >= minVolume

\* searchMarketsEnhanced after getMarketsFromGamma answered: the Market[] it
\* returns; `failed` tells that its catch was taken
searchMarketsEnhancedSteps(gammaMarkets, query, category, sortBy, limit, minVolume) ==
    IF gammaMarkets = <<>> THEN [markets |-> <<>>, failed |-> FALSE]
    ELSE IF \E i \in 1..Len(gammaMarkets) :
                searchOutcomes(gammaMarkets[i].outcomes).kind = "SyntaxError"
    THEN [markets |-> <<>>, failed |-> TRUE]
    ELSE LET scoredMarkets ==
                 [i \in 1..Len(gammaMarkets) |->
                     scoreOne(gammaMarkets[i], query, category)]
             relevant(market) == passesFilter(market, minVolume)
             relevantMarkets == SelectSeq(scoredMarkets, relevant)
             sortedMarkets == sortEnhancedMarkets(relevantMarkets, sortBy)
             top == slice(sortedMarkets, limit)
         IN  [markets |-> [i \in 1..Len(top) |-> finalMarket(top[i])],
              failed |-> FALSE]

----------------------------------------------------------------------------
(* generateSearchQueries *)

\* [...new Set(queries)]: the first occurrence of each element, in order
RECURSIVE unique(_)
unique(s) ==
    IF s = <<>> THEN <<>>
    ELSE LET r == unique(SubSeq(s, 1, Len(s) - 1))
             x == s[Len(s)]
         IN  IF \E i \in 1..Len(r) : r[i] = x THEN r ELSE Append(r, x)

\* The queries one interest adds when it contains a known topic
keywordTable ==
    [politics |->
        <<<<"e", "l", "e", "c", "t", "i", "o", "n">>,
          <<"p", "r", "e", "s", "i", "d", "e", "n", "t">>,
          <<"c", "o", "n", "g", "r", "e", "s", "s">>,
          <<"p", "o", "l", "i", "c", "y">>>>,
     ukraine |->
        <<<<"r", "u", "s", "s", "i", "a">>,
          <<"c", "e", "a", "s", "e", "f", "i", "r", "e">>,
          <<"w", "a", "r">>,
          <<"c", "o", "n", "f", "l", "i", "c", "t">>>>,
     crypto |->
        <<<<"b", "i", "t", "c", "o", "i", "n">>,
          <<"e", "t", "h", "e", "r", "e", "u", "m">>,
          <<"b", "l", "o", "c", "k", "c", "h", "a", "i", "n">>>>,
     sports |->
        <<<<"b", "a", "s", "k", "e", "t", "b", "a", "l", "l">>,
          <<"f", "o", "o", "t", "b", "a", "l", "l">>,
          <<"b", "a", "s", "e", "b", "a", "l", "l">>,
          <<"s", "o", "c", "c", "e", "r">>,
          <<"b", "o", "x", "i", "n", "g">>,
          <<"u", "f", "c">>,
          <<"m", "m", "a">>,
          <<"g", "o", "l", "f">>,
          <<"t", "e", "n", "n", "i", "s">>,
          <<"m", "a", "n", "c", "h", "e", "s", "t", "e", "r">>,
          <<"r", "y", "d", "e", "r", " ", "c", "u", "p">>,
          <<"c", "h", "a", "m", "p", "i", "o", "n", "s", "h", "i", "p">>,
          <<"o", "l", "y", "m", "p", "i", "c", "s">>>>]

interestQueries(interest) ==
    LET lower == toLowerCase(interest)
    IN  (IF includes(lower, PoliticsWord) THEN keywordTable.politics ELSE <<>>)
        \o (IF includes(lower, <<"u", "k", "r", "a", "i", "n", "e">>) THEN keywordTable.ukraine ELSE <<>>)
        \o (IF includes(lower, <<"c", "r", "y", "p", "t", "o">>) THEN keywordTable.crypto ELSE <<>>)
        \o (IF includes(lower, SportsWord) THEN keywordTable.sports ELSE <<>>)

RECURSIVE expandInterests(_)
expandInterests(interests) ==
    IF interests = <<>> THEN <<>>
    ELSE interestQueries(Head(interests)) \o expandInterests(Tail(interests))

generateSearchQueriesLowerCase(interests, knowledgeLevel, riskTolerance) ==
    unique([i \in 1..Len(interests) |-> toLowerCase(interests[i])]
           \o expandInterests(interests)
           \o (IF knowledgeLevel = "advanced"
               THEN [i \in 1..Len(interests) |-> interests[i] \o <<" ", "a", "n", "a", "l", "y", "s", "i", "s">>]
               ELSE <<>>))

\* The interests, the queries their topics add and, for the advanced level,
\* each interest followed by " analysis"; then the duplicates removed
generateSearchQueries(interests, knowledgeLevel, riskTolerance) ==
    unique(interests
           \o expandInterests(interests)
           \o (IF knowledgeLevel = "advanced"
               THEN [i \in 1..Len(interests) |-> interests[i] \o <<" ", "a", "n", "a", "l", "y", "s", "i", "s">>]
               ELSE <<>>))

----------------------------------------------------------------------------
(* The Gamma API and the listings it answers with *)

GAMMA_API_RETRY_ATTEMPTS == 2
GAMMA_API_RETRY_DELAY == 1000

\* Bounds of the listings model
MaxRecords == 2

Sample ==
    [VoteNow |-> <<"V", "o", "t", "e", " ", "n", "o", "w">>,
     GolfCup |-> <<"g", "o", "l", "f", " ", "c", "u", "p">>,
     AB |-> <<"a", " ", "b">>,
     Politics |-> <<"P", "o", "l", "i", "t", "i", "c", "s">>]

\* Records the Gamma API can answer with
RecordNative ==
    [EmptyObject EXCEPT
        !.id = Some(<<"1">>), !.question = Some(Sample.VoteNow),
        !.endDateIso = Some("2030-01-01"),
        !.outcomes = OutcomesList(<<"Up", "Down">>),
        !.questionID = Some("q1"), !.eventsTitle = Some("Election"),
        !.eventsTicker = Some(Sample.Politics), !.conditionId = Some(<<"0", "x", "a">>),
        !.volume = Some(MIN_VOLUME_MODERATE), !.liquidityNum = Some(30000)]
RecordEncoded ==
    [EmptyObject EXCEPT
        !.id = Some(<<"2">>), !.question = Some(Sample.VoteNow),
        !.endDate = Some("2031-01-01"),
        !.outcomes = OutcomesString(JSONstringify(<<"Up", "Down">>)),
        !.volume = Some(6000)]
RecordNoQuestion ==
    [EmptyObject EXCEPT
        !.id = Some(<<"3">>), !.conditionId = Some(<<"0", "x", "c">>),
        !.volume = Some(20000)]
RecordEmptyQuestion ==
    [EmptyObject EXCEPT
        !.id = Some(<<"5">>), !.question = Some(<<>>),
        !.outcomes = OutcomesString(<<>>), !.volume = Some(6000)]
RecordBadOutcomes ==
    [EmptyObject EXCEPT
        !.id = Some(<<"4">>), !.question = Some(Sample.AB),
        !.outcomes = OutcomesString(<<Lexeme("bare", "Yes"), Lexeme(",", ""), Lexeme("bare", "No")>>),
        !.volume = Some(20000)]

RawRecords == {RecordNative, RecordEncoded, RecordNoQuestion, RecordEmptyQuestion,
               RecordBadOutcomes}
Batches == UNION {[1..n -> RawRecords] : n \in 1..MaxRecords}

\* What one `fetch(url)` and `response.json()` can produce: the fetch throws,
\* a status that is not 2xx, a 2xx body that is no JSON, a JSON value that is
\* no array, or an array of records
GammaFailures == {"network", "status", "notJson"}
GammaAnswers ==
    {[kind |-> k, data |-> <<>>] : k \in GammaFailures \cup {"notArray"}}
    \cup {[kind |-> "array", data |-> <<>>]}
    \cup {[kind |-> "array", data |-> b] : b \in Batches}

\* One pass of the try block of getMarketsFromGamma: the markets it returns,
\* or what sent it to the catch
gammaAttempt(answer) ==
    IF answer.kind \in GammaFailures
    THEN [kind |-> answer.kind, markets |-> <<>>]
    ELSE IF answer.kind = "notArray"
    THEN [kind |-> "value", markets |-> <<>>]
    ELSE LET mapped == gammaMap(answer.data)
         IN  IF mapped.kind = "value"
             THEN [kind |-> "value", markets |-> mapped.markets]
             ELSE [kind |-> "badRecord", markets |-> <<>>]

----------------------------------------------------------------------------
(* Market detail and order book *)

\* PolymarketService.getMarket: the Market, or the error it throws
getMarket(conditionId, answer) ==
    IF ~clobClient
    THEN [kind |-> "thrown", message |-> "CLOB client not initialized"]
    ELSE IF answer.kind # "value"
    THEN [kind |-> "thrown", message |-> MessageOf(answer, "unknown")]
    ELSE IF answer.body = "error"
    THEN [kind |-> "thrown", message |-> "Market not found in CLOB"]
    ELSE IF answer.body = "malformed"
    THEN [kind |-> "thrown", message |-> "ZodError"]
    ELSE [kind |-> "value", message |-> ""]

\* The answers of clobClient.getOrderBook(tokenId): a book with or without
\* orders, an error body, a value the schema rejects, or a throw
OrderBookAnswers ==
    {[kind |-> "value", body |-> b, message |-> ""] :
        b \in {"book", "emptyBook", "error", "malformed"}}
    \cup {[kind |-> t.kind, body |-> "none", message |-> t.message] : t \in Throws}

getOrderBookEmptyOnFailure(tokenId, answer) ==
    IF ~clobClient
    THEN [kind |-> "thrown", book |-> "none", message |-> "CLOB client not initialized"]
    ELSE IF answer.kind # "value" \/ answer.body \notin {"book", "emptyBook"}
    THEN [kind |-> "value", book |-> "emptyBook", message |-> ""]
    ELSE [kind |-> "value", book |-> answer.body, message |-> ""]

\* PolymarketService.getOrderBook: orderBookSchema.parse of the answer, or the
\* error it throws
getOrderBook(tokenId, answer) ==
    IF ~clobClient
    THEN [kind |-> "thrown", book |-> "none", message |-> "CLOB client not initialized"]
    ELSE IF answer.kind # "value"
    THEN [kind |-> "thrown", book |-> "none",
          message |-> MessageOf(answer, "unknown")]
    ELSE IF answer.body \notin {"book", "emptyBook"}
    THEN [kind |-> "thrown", book |-> "none", message |-> "ZodError"]
    ELSE [kind |-> "value", book |-> answer.body, message |-> ""]

----------------------------------------------------------------------------
(* Listing, search and lookup calls: one call in flight *)

NoResult == [kind |-> "none", markets |-> <<>>, text |-> ""]
Returned(markets) == [kind |-> "value", markets |-> markets, text |-> ""]
Raised(message) == [kind |-> "thrown", markets |-> <<>>, text |-> message]
Text(text) == [kind |-> "text", markets |-> <<>>, text |-> text]

IdleSearch ==
    [pc |-> "idle", entry |-> "none",
     query |-> <<>>, category |-> None, sortBy |-> "volume", limit |-> 0,
     minVolume |-> 0, queries |-> <<>>, allResults |-> <<>>,
     marketId |-> <<>>, conditionId |-> <<>>, tokenIndex |-> 0,
     maxRetries |-> 0, retryDelay |-> 0, attempt |-> 0,
     nAttempts |-> 0, waited |-> 0, nAfterSuccess |-> 0, succeeded |-> FALSE,
     everSucceeded |-> FALSE, lastKind |-> "none", lastData |-> <<>>,
     fetched |-> <<>>, searchFailed |-> FALSE, answer |-> "none",
     unavailable |-> 0, result |-> NoResult]

ListingFrame == UNCHANGED <<clobClient, wallet, isInitialized, usdc, allowances,
                              held, calls, scoring, applied>>

Done(s, result) == [s EXCEPT !.pc = "done", !.result = result]

\* `for (let attempt = 0; ...` entered with maxRetries >= 0
BeginFetch(s) ==
    [s EXCEPT !.pc = "fetch", !.attempt = 0, !.nAttempts = 0, !.waited = 0,
              !.nAfterSuccess = 0, !.succeeded = FALSE, !.lastKind = "none",
              !.lastData = <<>>, !.fetched = <<>>]

\* new Map(allResults.map((r) => [r.id, r])).values(): one entry per id, at
\* the place of the id's first record, holding its last record
dedupeById(allResults) ==
    LET ids == unique([i \in 1..Len(allResults) |-> allResults[i].id])
        last(id) == CHOOSE i \in 1..Len(allResults) :
                        /\ allResults[i].id = id
                        /\ \A j \in (i + 1)..Len(allResults) : allResults[j].id # id
    IN  [k \in 1..Len(ids) |-> allResults[last(ids[k])]]

\* The minVolume searchMarketsByInterests asks for
riskVolume(riskTolerance) ==
    IF riskTolerance = "conservative" THEN MIN_VOLUME_CONSERVATIVE
    ELSE IF riskTolerance = "moderate" THEN MIN_VOLUME_MODERATE
    ELSE MIN_VOLUME_AGGRESSIVE

\* Math.min(limit * MAX_RESULTS_MULTIPLIER, MAX_RESULTS_CAP), as slice reads it
innerLimit(limit) == Min((3 * limit) \div 2, MAX_RESULTS_CAP)

\* selectMarketTool's catch: the text for the error message
NotFoundMessages == {"Market not found in CLOB"}
selectErrorText(message) ==
    IF message \in NotFoundMessages THEN "NotFoundInCLOB" ELSE "ErrorFetching"

\* gammaMarkets.find((m) => m.id === params.marketId)
findById(markets, marketId) ==
    LET hits == {i \in 1..Len(markets) : markets[i].id = Some(marketId)}
    IN  IF hits = {} THEN None
        ELSE Some(markets[CHOOSE i \in hits : \A j \in hits : i <= j])

\* What the caller of getMarketsFromGamma does with the markets it returned
FetchReturned(s, markets) ==
    IF s.entry = "getMarketsFromGamma" THEN Done(s, Returned(markets))
    ELSE IF s.entry = "searchMarketsEnhanced"
    THEN LET r == searchMarketsEnhancedSteps(markets, s.query, s.category,
                                             s.sortBy, s.limit, s.minVolume)
         IN  Done([s EXCEPT !.searchFailed = r.failed], Returned(r.markets))
    ELSE IF s.entry = "searchMarketsByInterests"
    THEN LET r == searchMarketsEnhancedSteps(markets, Head(s.queries), None,
                                             "volume", innerLimit(s.limit),
                                             s.minVolume)
             allResults ==
                 s.allResults
                 \o [i \in 1..Len(r.markets) |->
                        [r.markets[i] EXCEPT
                            !.relevanceScore = Some(OrNum(@, 0))]]
             d == [s EXCEPT !.queries = Tail(@), !.allResults = allResults,
                            !.searchFailed = @ \/ r.failed]
         IN  IF d.queries # <<>> THEN BeginFetch(d)
             ELSE Done(d, Returned(slice(sortEnhancedMarkets(
                              dedupeById(allResults), "relevance"), s.limit)))
    ELSE LET gammaMarketData == findById(markets, s.marketId)
         IN  IF gammaMarketData = None
             THEN Done(s, Text("NotFoundInGamma"))
             ELSE IF OrText(gammaMarketData[1].conditionId, <<>>) = <<>>
             THEN Done(s, Text("MissingConditionId"))
             ELSE [s EXCEPT !.pc = "getRawMarket",
                            !.conditionId = gammaMarketData[1].conditionId[1]]

AttemptedRethrow(s, answer) ==
    LET out == gammaAttempt(answer)
        d == [s EXCEPT !.nAttempts = @ + 1, !.lastKind = out.kind,
                       !.nAfterSuccess = @ + (IF s.succeeded THEN 1 ELSE 0)]
    IN  IF out.kind = "value"
        THEN FetchReturned([d EXCEPT !.succeeded = TRUE, !.everSucceeded = TRUE,
                                     !.lastData = answer.data,
                                     !.fetched = out.markets], out.markets)
        ELSE IF s.attempt < s.maxRetries THEN [d EXCEPT !.pc = "delay"]
        ELSE Done([d EXCEPT !.lastData = answer.data], Raised(out.kind))

\* One pass of the loop of getMarketsFromGamma, from the fetch to its return
\* or to the `await` of the retry delay
Attempted(s, answer) ==
    LET out == gammaAttempt(answer)
        d == [s EXCEPT !.nAttempts = @ + 1, !.lastKind = out.kind,
                       !.nAfterSuccess = @ + (IF s.succeeded THEN 1 ELSE 0)]
    IN  IF out.kind = "value"
        THEN FetchReturned([d EXCEPT !.succeeded = TRUE, !.everSucceeded = TRUE,
                                     !.lastData = answer.data,
                                     !.fetched = out.markets], out.markets)
        ELSE IF s.attempt < s.maxRetries THEN [d EXCEPT !.pc = "delay"]
        ELSE FetchReturned([d EXCEPT !.lastData = answer.data], <<>>)

FetchAttempt ==
    /\ search.pc = "fetch"
    /\ \E answer \in GammaAnswers : search' = Attempted(search, answer)
    /\ ListingFrame

\* `await new Promise((resolve) => setTimeout(resolve, retryDelay)); continue`
RetryDelay ==
    /\ search.pc = "delay"
    /\ search' = [search EXCEPT !.pc = "fetch", !.attempt = @ + 1,
                                !.waited = @ + search.retryDelay,
                                !.lastKind = "none"]
    /\ ListingFrame

\* The inputs of the calls
RetryOptions == (0 - 1)..GAMMA_API_RETRY_ATTEMPTS
Queries == {<<>>, <<"v", "o", "t", "e">>, PoliticsWord}
Categories == {None, Some(PoliticsWord)}
SortStrategies == {"volume", "relevance", "popularity", "liquidity"}
InterestLists == {<<>>, <<<<"v", "o", "t", "e">>>>}
KnowledgeLevels == {"intermediate", "advanced"}
RiskTolerances == {"conservative", "moderate", "aggressive"}
MarketIds == {<<"1">>, <<"2">>, <<"9">>, <<"0", "x", "a">>}

getMarketsFromGammaCall ==
    /\ search.pc = "idle"
    /\ \E maxRetries \in RetryOptions :
         LET s == [search EXCEPT !.entry = "getMarketsFromGamma",
                                 !.maxRetries = maxRetries,
                                 !.retryDelay = GAMMA_API_RETRY_DELAY]
         IN  search' = IF maxRetries < 0 THEN Done(s, Returned(<<>>))
                       ELSE BeginFetch(s)
    /\ ListingFrame

searchMarketsEnhancedCall ==
    /\ search.pc = "idle"
    /\ \E query \in Queries, category \in Categories, sortBy \in SortStrategies,
          limit \in {1, DEFAULT_LIMIT}, useGammaAPI \in BOOLEAN :
         LET s == [search EXCEPT !.entry = "searchMarketsEnhanced",
                                 !.query = query, !.category = category,
                                 !.sortBy = sortBy, !.limit = limit,
                                 !.minVolume = MIN_VOLUME_DEFAULT,
                                 !.maxRetries = GAMMA_API_RETRY_ATTEMPTS,
                                 !.retryDelay = GAMMA_API_RETRY_DELAY]
         IN  search' = IF useGammaAPI THEN BeginFetch(s)
                       ELSE Done(s, Returned(<<>>))
    /\ ListingFrame

searchMarketsByInterestsCall ==
    /\ search.pc = "idle"
    /\ \E interests \in InterestLists, knowledgeLevel \in KnowledgeLevels,
          riskTolerance \in RiskTolerances, limit \in {1, DEFAULT_INTEREST_LIMIT} :
         LET s == [search EXCEPT
                      !.entry = "searchMarketsByInterests",
                      !.queries = generateSearchQueries(interests, knowledgeLevel,
                                                        riskTolerance),
                      !.limit = limit, !.minVolume = riskVolume(riskTolerance),
                      !.maxRetries = GAMMA_API_RETRY_ATTEMPTS,
                      !.retryDelay = GAMMA_API_RETRY_DELAY]
         IN  search' = IF s.queries = <<>> THEN Done(s, Returned(<<>>))
                       ELSE BeginFetch(s)
    /\ ListingFrame

----------------------------------------------------------------------------
(* selectMarketTool: SELECT_MARKET_FOR_TRADING *)

selectMarketToolCall ==
    /\ search.pc = "idle"
    /\ \E marketId \in MarketIds :
         LET s == [search EXCEPT !.entry = "selectMarketTool",
                                 !.marketId = marketId,
                                 !.maxRetries = GAMMA_API_RETRY_ATTEMPTS,
                                 !.retryDelay = GAMMA_API_RETRY_DELAY]
         IN  search' = IF StartsWith0x(marketId)
                       THEN [s EXCEPT !.pc = "getRawMarket",
                                      !.conditionId = marketId]
                       ELSE BeginFetch(s)
    /\ ListingFrame

\* `await polymarketService.getRawMarket(conditionId)` and the tool's catch
SelectGetRawMarket ==
    /\ search.pc = "getRawMarket"
    /\ \E answer \in MarketAnswers :
         LET raw == getRawMarket(search.conditionId, answer)
             s == [search EXCEPT
                      !.answer = IF answer.kind = "value" THEN answer.body
                                 ELSE answer.kind]
         IN  search' = IF raw.kind = "thrown"
                       THEN Done(s, Text(selectErrorText(raw.message)))
                       ELSE [s EXCEPT !.pc = "getOrderBook", !.tokenIndex = 1]
    /\ ListingFrame

\* One pass of `for (const token of rawMarketData.tokens)`: a failed order
\* book is shown as "Price unavailable"
SelectGetOrderBook ==
    /\ search.pc = "getOrderBook"
    /\ \E answer \in OrderBookAnswers :
         LET book == getOrderBook(MarketTokens[search.tokenIndex].token_id, answer)
             s == [search EXCEPT
                      !.unavailable = @ + (IF book.kind = "thrown" THEN 1 ELSE 0)]
         IN  search' = IF search.tokenIndex < Len(MarketTokens)
                       THEN [s EXCEPT !.tokenIndex = @ + 1]
                       ELSE Done(s, Text("MarketReady"))
    /\ ListingFrame

----------------------------------------------------------------------------
(* Market detail and order book called on their own *)

DetailDone(entry, answer, out) ==
    [search EXCEPT
        !.pc = "done", !.entry = entry,
        !.answer = IF answer.kind = "value" THEN answer.body ELSE answer.kind,
        !.result = IF out.kind = "thrown" THEN Raised(out.message)
                   ELSE Text(IF entry = "getOrderBook" THEN out.book ELSE "market")]

getMarketCall ==
    /\ search.pc = "idle"
    /\ \E conditionId \in ConditionIds, answer \in MarketAnswers :
         search' = DetailDone("getMarket", answer, getMarket(conditionId, answer))
    /\ ListingFrame

getRawMarketCall ==
    /\ search.pc = "idle"
    /\ \E conditionId \in ConditionIds, answer \in MarketAnswers :
         search' = DetailDone("getRawMarket", answer,
                              getRawMarket(conditionId, answer))
    /\ ListingFrame

getOrderBookCall ==
    /\ search.pc = "idle"
    /\ \E tokenId \in TokenIds, answer \in OrderBookAnswers :
         search' = DetailDone("getOrderBook", answer, getOrderBook(tokenId, answer))
    /\ ListingFrame

----------------------------------------------------------------------------
(* calculateRelevanceScore on its own: each market scored as it is and with  *)
(* the query added to its question                                           *)

Questions == {Sample.VoteNow, Sample.GolfCup, Sample.AB, UnknownMarket, <<>>}
ScoreQueries == Queries \cup {SportsWord, <<"a", " ", "c">>, <<"G", "O", "L", "F">>,
                              <<"n", "o", " ", " ", "x">>}
ScoreCategories == {None, Some(<<>>), Some(PoliticsWord), Some(General)}
MarketCategories == {None, Some(<<>>), Some(Sample.Politics)}

ScoringFrame == UNCHANGED <<clobClient, wallet, isInitialized, usdc, allowances,
                            held, calls, search, applied>>

IdleScoring ==
    [pc |-> "idle", question |-> <<>>, withQuery |-> <<>>, query |-> <<>>,
     category |-> None, marketCategory |-> None, score |-> 0, scoreWithQuery |-> 0]

\* The question changed to contain the query verbatim as well
QuestionsWith(question, query) ==
    {question \o <<" ">> \o query, query \o <<" ">> \o question,
     question \o query, query \o question}

ScoreMarket ==
    /\ scoring.pc = "idle"
    /\ \E question \in Questions, query \in ScoreQueries,
          category \in ScoreCategories, marketCategory \in MarketCategories :
         \E withQuery \in QuestionsWith(question, query) :
           scoring' =
               [pc |-> "done", question |-> question, withQuery |-> withQuery,
                query |-> query, category |-> category,
                marketCategory |-> marketCategory,
                score |-> calculateRelevanceScore(question, marketCategory,
                                                  query, category),
                scoreWithQuery |-> calculateRelevanceScore(withQuery, marketCategory,
                                                           query, category)]
    /\ ScoringFrame

----------------------------------------------------------------------------
(* sortEnhancedMarkets, generateSearchQueries and the good-till-date order   *)
(* on their own                                                              *)

MaxRanked == 3

IdleApplied ==
    [pc |-> "idle", op |-> "none", sortBy |-> "volume", input |-> <<>>,
     output |-> <<>>, again |-> <<>>, interests |-> <<>>,
     knowledgeLevel |-> "intermediate", riskTolerance |-> "moderate",
     queries |-> <<>>, now |-> 0, expirationMinutes |-> 0, expiration |-> 0,
     orderType |-> "none"]

AppliedFrame == UNCHANGED <<clobClient, wallet, isInitialized, usdc, allowances,
                            held, calls, search, scoring>>

\* Scored markets to rank: three ids, each at one of three levels of volume,
\* liquidity and score; at the lowest level the volume is undefined
MarketsToRank ==
    {[EmptyObject EXCEPT
         !.id = Some(<<id>>),
         !.volume24hr = IF level = 0 THEN None ELSE Some(1000 * level),
         !.liquidity = Some(500 * level),
         !.relevanceScore = Some(300 * level),
         !.popularityScore = Some(2000 * level)] :
       id \in {"1", "2", "3"}, level \in 0..2}

MaxInterests == 2

\* Interests a profile can name: a topic of the table in two spellings, a
\* keyword the table adds for it, and a word the table does not know
InterestInputs ==
    {Sample.Politics, PoliticsWord, keywordTable.politics[1], <<"v", "o", "t", "e">>}

ExpandInterests ==
    /\ applied.pc = "idle"
    /\ \E n \in 0..MaxInterests :
         \E interests \in [1..n -> InterestInputs],
            knowledgeLevel \in KnowledgeLevels, riskTolerance \in RiskTolerances :
           applied' = [IdleApplied EXCEPT
                          !.pc = "done", !.op = "generateSearchQueries",
                          !.interests = interests,
                          !.knowledgeLevel = knowledgeLevel,
                          !.riskTolerance = riskTolerance,
                          !.queries = generateSearchQueries(interests, knowledgeLevel,
                                                            riskTolerance)]
    /\ AppliedFrame

MaxNow == 2
MaxMinutes == 5

gtdExpirationNoPad(now, expirationMinutes) == now + expirationMinutes * 60

\* The expiration of a good-till-date order, in seconds: the submission time,
\* the fixed pad of one minute and the requested window
gtdExpiration(now, expirationMinutes) == now + 60 + expirationMinutes * 60

\* A good-till-date order built at time `now` and posted
createGtdOrder ==
    /\ applied.pc = "idle"
    /\ \E now \in 0..MaxNow, expirationMinutes \in 1..MaxMinutes :
         applied' = [IdleApplied EXCEPT
                        !.pc = "done", !.op = "createGtdOrder", !.now = now,
                        !.expirationMinutes = expirationMinutes,
                        !.expiration = gtdExpiration(now, expirationMinutes),
                        !.orderType = "GTD"]
    /\ AppliedFrame

RankMarkets ==
    /\ applied.pc = "idle"
    /\ \E n \in 0..MaxRanked :
         \E markets \in [1..n -> MarketsToRank], sortBy \in SortStrategies :
           LET sorted == sortEnhancedMarkets(markets, sortBy)
           IN  applied' = [IdleApplied EXCEPT
                              !.pc = "done", !.op = "sortEnhancedMarkets",
                              !.sortBy = sortBy, !.input = markets,
                              !.output = sorted,
                              !.again = sortEnhancedMarkets(sorted, sortBy)]
    /\ AppliedFrame

----------------------------------------------------------------------------
(* One call at a time, of any operation *)

InitWith(procs, keys, balances, allowanceLists) ==
    /\ \E key \in keys :
         LET s == initializeClient(key)
         IN  /\ clobClient = s.clobClient
             /\ wallet = s.wallet
             /\ isInitialized = s.isInitialized
    /\ usdc \in balances
    /\ allowances \in allowanceLists
    /\ held \in [TokenIds -> {0, MaxSize}]
    /\ calls = [p \in procs |-> IdleCall]
    /\ search = IdleSearch
    /\ scoring = IdleScoring
    /\ applied = IdleApplied

Init == InitWith({1}, PrivateKeys, Balances, AllowanceLists)

Next ==
    \/ \E p \in Procs : createBuyOrder(p)
    \/ \E p \in Procs : createSellOrder(p)
    \/ \E p \in Procs : createBuyOrderTool(p)
    \/ \E p \in Procs : createSellOrderTool(p)
    \/ \E p \in Procs : GetRawMarket(p)
    \/ \E p \in Procs : ValidateOrder(p)
    \/ \E p \in Procs : CreateOrder(p)
    \/ \E p \in Procs : PostOrder(p)
    \/ \E p \in Procs : CallCheckBuy(p)
    \/ \E p \in Procs : CallCheckSell(p)
    \/ \E p \in Procs : executeAction(p)

Spec == Init /\ [][Next]_vars

----------------------------------------------------------------------------
(* Two buy orders in flight at once *)

ConcurrentBuy(p) == StartOrder(p, "BUY", {"tokYes"}, {50}, 1..MaxSize, {FALSE})

\* the allowance covers every order: only the collateral is contended
InitRace == InitWith({1, 2}, {"valid"}, Balances, {<<50 * MaxSize>>})

NextRace ==
    \/ \E p \in Procs : ConcurrentBuy(p)
    \/ \E p \in Procs : ValidateOrder(p)
    \/ \E p \in Procs : CreateOrder(p)
    \/ \E p \in Procs : PostOrder(p)

SpecRace == InitRace /\ [][NextRace]_vars

----------------------------------------------------------------------------
(* One listing, search or lookup call at a time *)

InitListing ==
    /\ \E key \in PrivateKeys :
         LET s == initializeClient(key)
         IN  /\ clobClient = s.clobClient
             /\ wallet = s.wallet
             /\ isInitialized = s.isInitialized
    /\ usdc = 0
    /\ allowances = <<>>
    /\ held = [t \in TokenIds |-> 0]
    /\ calls = [p \in {1} |-> IdleCall]
    /\ search = IdleSearch
    /\ scoring = IdleScoring
    /\ applied = IdleApplied

NextListing ==
    \/ getMarketsFromGammaCall
    \/ searchMarketsEnhancedCall
    \/ searchMarketsByInterestsCall
    \/ selectMarketToolCall
    \/ FetchAttempt
    \/ RetryDelay
    \/ SelectGetRawMarket
    \/ SelectGetOrderBook
    \/ getMarketCall
    \/ getRawMarketCall
    \/ getOrderBookCall

SpecListing == InitListing /\ [][NextListing]_vars

NextScore == ScoreMarket

SpecScore == InitListing /\ [][NextScore]_vars

----------------------------------------------------------------------------
(* One ranking, interest expansion or good-till-date order at a time *)

NextApplied ==
    \/ RankMarkets
    \/ ExpandInterests
    \/ createGtdOrder

SpecApplied == InitListing /\ [][NextApplied]_vars

----------------------------------------------------------------------------
(* Properties *)

ServiceEntries == {"createBuyOrder", "createSellOrder"}
ToolEntries == {"createBuyOrderTool", "createSellOrderTool"}
OrderEntries == ServiceEntries \cup ToolEntries
OrderValue(c) == c.price * c.size

\* C1: in createBuyOrder/createSellOrder called without skipValidation, a
\* requirement check that returns canPlace=false ends the call with an
\* OrderResponse of success=false, and neither createOrder nor postOrder is
\* invoked in that call.
ValidationFailureStopsOrder ==
    \A p \in Procs :
        LET c == calls[p]
        IN  (c.entry \in OrderEntries /\ ~c.skipValidation /\ c.nCheck > 0
                /\ ~c.req.canPlace)
            => /\ c.pc = "done"
               /\ c.resp.kind = "OrderResponse" /\ ~c.resp.success
               /\ c.nCreate = 0 /\ c.nPost = 0

\* a buy of positive value refused by its requirement check
ValidationFailureSeen ==
    \E p \in Procs :
        LET c == calls[p]
        IN  /\ c.entry = "createBuyOrder" /\ ~c.skipValidation
            /\ c.nCheck = 1 /\ ~c.req.canPlace /\ c.seen.fetched = "scalar"
            /\ OrderValue(c) > c.seen.usdc /\ c.pc = "done"

\* C2: a conditionId that does not start with "0x" is never accepted by the
\* order path: for the buy/sell order tools and executeAction no requirement
\* check, createOrder or postOrder is performed for it.
NonSettlementIdNeverOrdered ==
    \A p \in Procs :
        LET c == calls[p]
        IN  (c.entry \in ToolEntries \cup {"executeAction"}
                /\ ~StartsWith0x(c.conditionId))
            => c.nCheck = 0 /\ c.nCreate = 0 /\ c.nPost = 0

\* C3: a resting limit order whose price is outside [0.01, 0.99] or whose
\* size is below 1 is rejected before any network call, on the tools and on
\* createBuyOrder/createSellOrder: no market-detail fetch, balance fetch,
\* createOrder or postOrder happens for it.
OutOfRangeOrderNoNetworkCall ==
    \A p \in Procs :
        LET c == calls[p]
        IN  (c.entry \in OrderEntries
                /\ (c.price < MinPrice \/ c.price > MaxPrice \/ c.size < MinSize))
            => c.nMarket = 0 /\ c.nBalance = 0 /\ c.nCreate = 0 /\ c.nPost = 0

\* C4: checkBuyOrderRequirements(orderValue) returns canPlace=true exactly
\* when the collateral balance is >= orderValue and the allowance summed over
\* all entries is >= orderValue (stated for a balance answer the service
\* reads as the number it expects).
BuyCheckNeedsBalanceAndAllowance ==
    \A p \in Procs :
        LET c == calls[p]
        IN  (c.side = "BUY" /\ c.nCheck = 1 /\ c.seen.fetched = "scalar"
                /\ clobClient /\ wallet)
            => (c.req.canPlace <=> (c.seen.usdc >= OrderValue(c)
                                    /\ c.seen.allowance >= OrderValue(c)))

\* C5: the maxOrderSize returned by checkBuyOrderRequirements equals
\* min(balance, allowance, orderValue) (same answers as C4).
BuyCheckMaxIsMinOfThree ==
    \A p \in Procs :
        LET c == calls[p]
        IN  (c.side = "BUY" /\ c.nCheck = 1 /\ c.seen.fetched = "scalar"
                /\ clobClient /\ wallet)
            => c.req.maxOrderSize
                 = Some(Min(Min(c.seen.usdc, c.seen.allowance), OrderValue(c)))

SellCheckUsesHeldBalance ==
    \A p \in Procs :
        LET c == calls[p]
        IN  (c.side = "SELL" /\ c.nCheck = 1 /\ clobClient /\ wallet)
            => /\ c.req.canPlace <=> c.seen.held >= c.size
               /\ c.req.maxOrderSize = Some(Min(c.seen.held, c.size))

\* C8: every OrderResponse is Confirmed (success=true, an orderId, the order
\* echoed with totalValue = price * size) only when the exchange accepted the
\* order, or Rejected (success=false with an error); success=true is never
\* returned when the exchange answered with an error.
OrderResponseTerminalShape ==
    \A p \in Procs :
        LET c == calls[p]
        IN  (c.pc = "done" /\ c.resp.kind = "OrderResponse")
            => /\ c.resp.success
                    => /\ c.exch.verdict = "accepted"
                       /\ c.resp.orderId # None
                       /\ c.resp.orderDetails
                            = Some([tokenId |-> c.tokenId, price |-> c.price,
                                    size |-> c.size, side |-> c.side,
                                    totalValue |-> c.price * c.size])
               /\ c.exch.verdict = "rejected"
                    => (~c.resp.success /\ c.resp.error # None)

StaleCheckSubmittedAndRejectionReported ==
    \A p \in Procs :
        LET c == calls[p]
        IN  (c.pc = "done" /\ c.nCheck = 1 /\ c.req.canPlace)
            => /\ c.nCheck = 1 /\ c.nCreate = 1
               /\ c.nPost = 1 \/ c.exch.verdict = "none"
               /\ (c.exch.verdict = "rejected" /\ c.exch.unfunded)
                    => ~c.resp.success

\* C11: a listings fetch makes at most maxRetries + 1 attempts, retries only
\* after a network failure or a response that is not 2xx (a 2xx body that is
\* no JSON counted with them), waits retryDelay between a failed attempt and
\* the next, and makes no attempt after a successful one.
GammaRetriesOnlyTransportFailures ==
    [][/\ search'.nAttempts <= search'.maxRetries + 1
       /\ search'.nAfterSuccess = 0
       /\ (search.pc = "fetch" /\ search'.pc = "delay")
            => search'.lastKind \in GammaFailures
       /\ search.pc = "delay"
            => (search'.pc = "fetch" /\ search'.attempt = search.attempt + 1
                /\ search'.waited = search.waited + GAMMA_API_RETRY_DELAY)]_vars

ListingEntries == {"getMarketsFromGamma", "searchMarketsEnhanced",
                   "searchMarketsByInterests"}
DetailEntries == {"getMarket", "getRawMarket", "getOrderBook"}

\* C12: getMarketsFromGamma, searchMarketsEnhanced and
\* searchMarketsByInterests never end with an error, whatever the upstream
\* answers, and return an empty list when every attempt of the fetch failed.
ListingsDegradeToEmpty ==
    search.entry \in ListingEntries
    => /\ search.result.kind # "thrown"
       /\ (search.pc = "done" /\ ~search.everSucceeded)
            => search.result = Returned(<<>>)

\* a search by interests whose three attempts all failed, the last on the network
AllAttemptsFailedSeen ==
    /\ search.entry = "searchMarketsByInterests" /\ search.pc = "done"
    /\ search.nAttempts = GAMMA_API_RETRY_ATTEMPTS + 1
    /\ ~search.everSucceeded /\ search.lastKind = "network"
    /\ search.result = Returned(<<>>)

\* C13: a market-detail or order-book request that fails upstream (a throw,
\* an error body, a response the schema rejects) ends getMarket, getRawMarket
\* and getOrderBook with an error raised; no Market or OrderBook is returned
\* in place of the failure.
DetailFailuresRaise ==
    (search.entry \in DetailEntries /\ search.pc = "done")
    => LET answered ==
               IF search.entry = "getOrderBook"
               THEN search.answer \in {"book", "emptyBook"}
               ELSE search.answer = "market"
       IN  /\ ~answered => search.result.kind = "thrown"
           /\ search.result.kind # "thrown" => (answered /\ clobClient)

\* an order book request answered with an error body
OrderBookErrorRaised ==
    /\ search.entry = "getOrderBook" /\ search.pc = "done" /\ clobClient
    /\ search.answer = "error" /\ search.result.kind = "thrown"

\* C14: select-market-for-trading reports 'market not found' only when the
\* upstream answered and holds no such market, never when the fetch failed
\* after its retries.
NotFoundOnlyWhenUpstreamAnswered ==
    (search.entry = "selectMarketTool" /\ search.pc = "done")
    => /\ search.result.text = "NotFoundInGamma" => search.succeeded
       /\ search.result.text = "NotFoundInCLOB" => search.answer = "error"

\* C15: one malformed record never fails a listings fetch: of an array the
\* upstream answered with, every record that normalizes on its own is among
\* the markets the fetch returns.
MalformedRecordDropsOnlyItself ==
    (search.pc = "done" /\ search.entry \in ListingEntries
        /\ search.lastKind \in {"value", "badRecord"})
    => \A i \in 1..Len(search.lastData) :
          gammaOutcomes(search.lastData[i].outcomes).kind = "value"
          => \E j \in 1..Len(search.fetched) :
                search.fetched[j].id = search.lastData[i].id

OutcomeLists == {<<>>, YesNo, <<"Up", "Down">>}

MarketFields == {"id", "conditionId", "question", "endDate", "outcomes", "eventId",
                 "eventTitle", "category", "volume24hr", "liquidity"}

\* C17: normalizing an already-normalized Market changes none of its fields:
\* a market the search returns equals, in every field, the record of the
\* listings fetch it was normalized from.
NormalizationIdempotent ==
    (search.entry = "searchMarketsEnhanced" /\ search.pc = "done")
    => \A k \in 1..Len(search.result.markets) :
          \A i \in 1..Len(search.fetched) :
             (/\ search.fetched[i].id = search.result.markets[k].id
              /\ \A f \in MarketFields \ {"outcomes"} : search.fetched[i][f] # None)
             => \A f \in MarketFields :
                   search.result.markets[k][f] = search.fetched[i][f]

\* C18: no market a search returns is derived from a raw record whose
\* question is missing or empty.
EmptyQuestionDiscarded ==
    (search.entry = "searchMarketsEnhanced" /\ search.pc = "done")
    => \A k \in 1..Len(search.result.markets) :
          \A i \in 1..Len(search.lastData) :
             search.lastData[i].id = search.result.markets[k].id
             => OrText(search.lastData[i].question, <<>>) # <<>>

ExactMatchNeverLowersScore ==
    scoring.pc = "done" => scoring.scoreWithQuery >= scoring.score

\* a question without the query, already at the top score through the
\* category match and the politics boost
TopScoreKeptWithQuery ==
    /\ scoring.pc = "done" /\ scoring.query = PoliticsWord
    /\ ~includes(toLowerCase(scoring.question), toLowerCase(scoring.query))
    /\ scoring.score = ScoreUnit /\ scoring.scoreWithQuery = ScoreUnit

\* The markets searchMarketsEnhanced returned in the call in flight: its
\* result, or what searchMarketsByInterests collected from its calls
EnhancedReturned ==
    IF search.entry = "searchMarketsEnhanced" /\ search.pc = "done"
    THEN search.result.markets
    ELSE IF search.entry = "searchMarketsByInterests" THEN search.allResults
    ELSE <<>>

RiskVolumesOrdered ==
    /\ riskVolume("conservative") >= riskVolume("moderate")
    /\ riskVolume("moderate") >= riskVolume("aggressive")

Ranked == applied.pc = "done" /\ applied.op = "sortEnhancedMarkets"

\* The number of places of a sequence that hold x
Count(s, x) == Cardinality({i \in 1..Len(s) : s[i] = x})

\* C22: ranking by "volume" yields a sequence non-increasing in volume24hr
\* that is a permutation of its input, and ranking the ranked sequence again
\* returns the same sequence.
VolumeRankingOrdered ==
    (Ranked /\ applied.sortBy = "volume")
    => /\ \A i, j \in 1..Len(applied.output) :
             i < j => OrNum(applied.output[i].volume24hr, 0)
                         >= OrNum(applied.output[j].volume24hr, 0)
       /\ Len(applied.output) = Len(applied.input)
       /\ \A i \in 1..Len(applied.input) :
             Count(applied.output, applied.input[i])
                = Count(applied.input, applied.input[i])
       /\ applied.again = applied.output

\* three markets given in rising volume, returned in falling volume
VolumeRankingReordered ==
    /\ Ranked /\ applied.sortBy = "volume" /\ Len(applied.input) = 3
    /\ applied.input[1].volume24hr = None
    /\ applied.input[2].volume24hr = Some(1000)
    /\ applied.input[3].volume24hr = Some(2000)
    /\ applied.output = <<applied.input[3], applied.input[2], applied.input[1]>>

\* The one-to-one maps from the places of the output to the places of the input
Placements(n) == {p \in [1..n -> 1..n] : \A i, j \in 1..n : i # j => p[i] # p[j]}

\* C23: under every strategy the ranking is a stable sort: the output is the
\* input rearranged so that markets with equal sort keys keep their original
\* order.
RankingStable ==
    Ranked
    => \E p \in Placements(Len(applied.input)) :
          /\ Len(applied.output) = Len(applied.input)
          /\ \A k \in 1..Len(applied.output) : applied.output[k] = applied.input[p[k]]
          /\ \A k, l \in 1..Len(applied.output) :
                (k < l /\ sortKey(applied.output[k], applied.sortBy)
                            = sortKey(applied.output[l], applied.sortBy))
                => p[k] < p[l]

\* two different markets with equal keys behind which a higher one was given
TiesKeptInOrder ==
    /\ Ranked /\ applied.sortBy = "liquidity" /\ Len(applied.input) = 3
    /\ applied.input[1].id # applied.input[2].id
    /\ applied.input[1].liquidity = applied.input[2].liquidity
    /\ applied.input[3].liquidity = Some(1000)
    /\ applied.input[1].liquidity = Some(500)
    /\ applied.output = <<applied.input[3], applied.input[1], applied.input[2]>>

Expanded == applied.pc = "done" /\ applied.op = "generateSearchQueries"

Elements(s) == {s[i] : i \in 1..Len(s)}

TableTerms ==
    Elements(keywordTable.politics) \cup Elements(keywordTable.ukraine)
      \cup Elements(keywordTable.crypto) \cup Elements(keywordTable.sports)

\* What C24 states of the queries, but for the queries allowed beside the
\* interests: every interest is among them as it was given, each is an
\* interest or an allowed term, an interest containing "politics" brings
\* "election", "president" and "congress", and no query occurs twice
QueriesWithin(allowed) ==
    /\ Elements(applied.interests) \subseteq Elements(applied.queries)
    /\ Elements(applied.queries) \subseteq Elements(applied.interests) \cup allowed
    /\ (\E i \in 1..Len(applied.interests) :
           includes(toLowerCase(applied.interests[i]), PoliticsWord))
       => {keywordTable.politics[k] : k \in 1..3} \subseteq Elements(applied.queries)
    /\ \A i, j \in 1..Len(applied.queries) :
          i # j => applied.queries[i] # applied.queries[j]

InterestsDone == search.entry = "searchMarketsByInterests" /\ search.pc = "done"

\* C25: when the per-query results of searchMarketsByInterests hold the same
\* market id more than once with different scores, the copy in the merged
\* result is the one with the highest score among them.
HighestScoringDuplicateKept ==
    InterestsDone
    => \A k \in 1..Len(search.result.markets) :
          \A i \in 1..Len(search.allResults) :
             search.allResults[i].id = search.result.markets[k].id
             => search.result.markets[k].relevanceScore[1]
                   >= search.allResults[i].relevanceScore[1]

\* C26: the list searchMarketsByInterests returns holds no id twice and at
\* most limit markets; the list searchMarketsEnhanced returns holds at most
\* limit markets.
ResultsUniqueAndWithinLimit ==
    /\ InterestsDone
       => /\ Len(search.result.markets) <= search.limit
          /\ \A k, l \in 1..Len(search.result.markets) :
                k # l => search.result.markets[k].id # search.result.markets[l].id
    /\ (search.entry = "searchMarketsEnhanced" /\ search.pc = "done")
       => Len(search.result.markets) <= search.limit

\* two queries returned the same two markets each: four results merged to two
DuplicatesMergedSeen ==
    /\ InterestsDone /\ search.limit = DEFAULT_INTEREST_LIMIT
    /\ Len(search.allResults) = 4
    /\ Cardinality({search.allResults[i].id : i \in 1..4}) = 2
    /\ Len(search.result.markets) = 2

\* C27: a good-till-date order submitted at time T with expirationMinutes = m
\* carries the expiration T + 60 s + m * 60 s; for m = 5 it lies between
\* T + 60 s and T + 60 s + 301 s; the order is posted with type GTD.
GtdExpirationPadded ==
    (applied.pc = "done" /\ applied.op = "createGtdOrder")
    => /\ applied.expiration = applied.now + 60 + applied.expirationMinutes * 60
       /\ applied.expirationMinutes = 5
            => /\ applied.expiration >= applied.now + 60
               /\ applied.expiration <= applied.now + 60 + 301
       /\ applied.orderType = "GTD"

\* an order with a window of five minutes submitted after time 0
FiveMinuteOrderSeen ==
    /\ applied.pc = "done" /\ applied.op = "createGtdOrder"
    /\ applied.expirationMinutes = 5 /\ applied.now > 0
    /\ applied.expiration = applied.now + 360

\* C28: with skipValidation set, createBuyOrder/createSellOrder make no
\* requirement check and no balance or allowance fetch and go directly to
\* createOrder, then postOrder; in every call postOrder is invoked only after
\* createOrder returned and, when validation is not skipped, only after the
\* requirement check returned canPlace = true.
PostOnlyAfterCreateAndCheck ==
    \A p \in Procs :
        LET c == calls[p]
        IN  c.entry \in OrderEntries
            => /\ c.skipValidation
                    => /\ c.nCheck = 0 /\ c.nBalance = 0
                       /\ c.pc \in {"createOrder", "postOrder", "done"}
                       /\ c.pc = "createOrder" => c.nCreate = 0 /\ c.nPost = 0
               /\ (c.pc = "postOrder" \/ c.nPost > 0)
                    => /\ c.nCreate = 1
                       /\ ~c.skipValidation
                            => /\ c.nCheck = 1
                               /\ c.req.kind = "value" /\ c.req.canPlace
               /\ c.nPost <= c.nCreate

\* an order posted without any check, which a check would have refused
UncheckedOrderPosted ==
    \E p \in Procs :
        /\ calls[p].entry = "createBuyOrder" /\ calls[p].skipValidation
        /\ calls[p].pc = "done" /\ calls[p].nPost = 1 /\ calls[p].nCreate = 1
        /\ calls[p].nCheck = 0 /\ calls[p].exch.unfunded

\* the market has a token with this id and this outcome label
TokenOf(tokenId, outcome) ==
    \E i \in 1..Len(MarketTokens) :
        MarketTokens[i].token_id = tokenId /\ MarketTokens[i].outcome = outcome

\* C29: the buy and sell order tools create an order only for a token of the
\* requested market whose outcome label equals the requested outcome exactly;
\* when no token of the market has that outcome the tool returns the
\* 'Invalid outcome' message and performs no requirement check, no createOrder
\* and no postOrder.
ToolOrdersExactOutcomeOnly ==
    \A p \in Procs :
        LET c == calls[p]
            reachedService == c.tokenId # "" \/ c.nCheck > 0 \/ c.nCreate > 0
                              \/ c.nPost > 0 \/ c.resp.kind # "none"
            noSuchOutcome == \A i \in 1..Len(MarketTokens) :
                                MarketTokens[i].outcome # c.outcome
        IN  c.entry \in ToolEntries
            => /\ reachedService => c.nMarket = 1 /\ TokenOf(c.tokenId, c.outcome)
               /\ c.tool = "InvalidOutcome"
                    => /\ c.pc = "done" /\ noSuchOutcome /\ c.nMarket = 1
                       /\ c.nCheck = 0 /\ c.nBalance = 0
                       /\ c.nCreate = 0 /\ c.nPost = 0
               /\ (noSuchOutcome /\ c.nMarket = 1 /\ c.tool # "Error")
                    => c.tool = "InvalidOutcome"

\* the outcome "yes" asked of a market whose outcomes are "Yes" and "No"
WrongCaseOutcomeRefused ==
    \E p \in Procs :
        /\ calls[p].entry = "createBuyOrderTool" /\ calls[p].outcome = "yes"
        /\ calls[p].pc = "done" /\ calls[p].tool = "InvalidOutcome"
        /\ calls[p].nMarket = 1 /\ calls[p].nCreate = 0

\* C30: reading market detail and order books needs no wallet credential:
\* with no private key configured the service is in read-only mode, where
\* getMarket, getRawMarket and getOrderBook still reach the trading API and
\* return the data it answers with, while trading is reported unavailable
\* (isReadyForTrading() is false).
ReadOnlyLookupsAnswered ==
    ~wallet
    => /\ ~isReadyForTrading
       /\ (/\ search.pc = "done" /\ search.entry \in DetailEntries
           /\ search.answer \in {"market", "book", "emptyBook"})
            => search.result.kind = "text"

====
